---- MODULE Spec2Model ----
(***************************************************************************)
(* A model of the DWARF converter of dwarf-stats                           *)
(* (src/dwarf-stats/src/converter/dwarf.rs): the line-program decoder, the *)
(* per-unit file cache, the interning tables, the debug-entry walk with    *)
(* its range primitive sub_ranges, the merge into the global range index,  *)
(* and the lookup that walks the index.                                    *)
(***************************************************************************)
EXTENDS Integers, Sequences, FiniteSets, TLC

(***************************************************************************)
(* Bounds of the model.                                                    *)
(***************************************************************************)
\* Width of the model's u32 (the code's is 32): keys and handles are < 2^U32Bits.
U32Bits == 4
\* Program counters of rows and ranges are drawn from 0..MaxPc and WidePc.
MaxPc == 2
\* Rows of the line program the decoder is run on.
MaxRows == 4
\* The walk of one unit: its rows, its entries below the root, its PC ranges.
MaxWalkRows == 3
MaxWalkEntries == 2
MaxWalkRanges == 2
\* A whole conversion: its rows, its entries below the roots, its PC ranges.
MaxUnitRows == 4
MaxUnitEntries == 1
MaxUnitRanges == 1
\* Compilation units dwarf.units() yields.
MaxUnits == 2
\* Line numbers of rows and call sites are drawn from 0..MaxLine.
MaxLine == 2
\* Depth of the debug-entry tree below its root.
MaxDepth == 2
\* Steps lookup follows inlined_into before the model gives up.
MaxChain == 6
\* The file cache: rows and entries below the roots of its conversions.
MaxFileRows == 3
MaxFileEntries == 2

(***************************************************************************)
(* Values.                                                                 *)
(***************************************************************************)
\* Option<T>: None is the empty sequence, Some(x) the one-element sequence.
None == << >>
Some(x) == << x >>

\* u32::MAX, the sentinel of lines 53, 82, 95 and 185.
U32_MAX == 2^U32Bits - 1

\* `x as u32` of a u64 x (lines 49, 130, 136, 179, 273, 274).
AsU32(x) == x % (2^U32Bits)

\* The u64 values the reader hands out as addresses: the low addresses, and
\* addresses at and above 2^32, where `as u32` wraps.
WidePc == 2^U32Bits
PcValues == (0..MaxPc) \cup {WidePc}

\* Maps (BTreeMap, HashMap) are functions; the empty map:
EmptyMap == [k \in {} |-> 0]

MapInsert(m, k, v) == [x \in (DOMAIN m) \cup {k} |-> IF x = k THEN v ELSE m[x]]

\* The elements of a set of numbers in ascending order (BTreeMap iteration).
RECURSIVE SortedSeq(_)
SortedSeq(S) ==
    IF S = {} THEN << >>
    ELSE LET m == CHOOSE x \in S : \A y \in S : x <= y
         IN  << m >> \o SortedSeq(S \ {m})

(***************************************************************************)
(* Interning tables: an IndexSet is a sequence without duplicates, the     *)
(* handle of an element its 0-based position.                              *)
(***************************************************************************)
\* A faulty variant: always appends, even a value already present.
InsertFullNoDedup(tbl, v) == [idx |-> Len(tbl), tbl |-> Append(tbl, v)]

\* IndexSet::insert_full(v).0 and the table afterwards.
InsertFull(tbl, v) ==
    IF \E i \in 1..Len(tbl) : tbl[i] = v
    THEN [idx |-> (CHOOSE i \in 1..Len(tbl) : tbl[i] = v) - 1, tbl |-> tbl]
    ELSE [idx |-> Len(tbl), tbl |-> Append(tbl, v)]

\* Converter::insert_source_location: the handle (as u32) and the table.
insert_source_location(tbl, source_location) ==
    LET r == InsertFull(tbl, source_location)
    IN  [idx |-> AsU32(r.idx), tbl |-> r.tbl]

\* to_string_lossy: bytes that are not UTF-8 become the replacement character.
ToStringLossy(raw) == IF raw \in {"\\xfe", "\\xff"} THEN "?" ELSE raw

(***************************************************************************)
(* The line-program decoder (parse_line_program).                          *)
(***************************************************************************)
\* A row of the line program as rows.next_row() yields it; line 0 is "no line".
Rows(addresses, file_indexes, lines, ends) ==
    [address : addresses, file_index : file_indexes, line : lines,
     end_sequence : {FALSE}]
    \cup [address : ends, file_index : {1}, line : {0}, end_sequence : {TRUE}]

\* The rows the decoder is run on.
DecoderRows == Rows(0..MaxPc, 1..2, 0..MaxLine, 0..MaxPc)
\* The rows of the unit that is walked.
WalkRows == Rows(PcValues, {1}, 1..MaxLine, {MaxPc + 1})
\* The rows of the units of a whole conversion.
UnitRows == Rows(0..1, 1..2, {1}, {MaxPc + 1})

NoRow == [address |-> 0, file_index |-> 0, line |-> 0, end_sequence |-> FALSE]

LineProgramRow(r) ==
    [address |-> r.address, file_index |-> AsU32(r.file_index), line |-> AsU32(r.line)]

\* A faulty variant: a row at the address of the last row is appended, not collapsed.
ParseRowNoCollapse(st, r) ==
    IF r.end_sequence
    THEN IF st.sequence_rows # << >>
         THEN [sequences |-> Append(st.sequences,
                                [start |-> st.sequence_rows[1].address,
                                 end |-> r.address,
                                 rows |-> st.sequence_rows]),
               sequence_rows |-> << >>]
         ELSE st
    ELSE LET new == LineProgramRow(r)
             n == Len(st.sequence_rows)
         IN  IF n > 0 /\ st.sequence_rows[n].address # new.address
                /\ st.sequence_rows[n].file_index = new.file_index
                /\ st.sequence_rows[n].line = new.line
             THEN st
             ELSE [st EXCEPT !.sequence_rows = Append(@, new)]

\* A faulty variant: a row repeating the last row's (file, line) is appended, not dropped.
ParseRowNoDedup(st, r) ==
    IF r.end_sequence
    THEN IF st.sequence_rows # << >>
         THEN [sequences |-> Append(st.sequences,
                                [start |-> st.sequence_rows[1].address,
                                 end |-> r.address,
                                 rows |-> st.sequence_rows]),
               sequence_rows |-> << >>]
         ELSE st
    ELSE LET new == LineProgramRow(r)
             n == Len(st.sequence_rows)
         IN  IF n > 0 /\ st.sequence_rows[n].address = new.address
             THEN [st EXCEPT !.sequence_rows[n] = new]
             ELSE [st EXCEPT !.sequence_rows = Append(@, new)]

\* A faulty variant: closing a sequence does not reset the accumulator.
ParseRowKeepsRows(st, r) ==
    IF r.end_sequence
    THEN IF st.sequence_rows # << >>
         THEN [sequences |-> Append(st.sequences,
                                [start |-> st.sequence_rows[1].address,
                                 end |-> r.address,
                                 rows |-> st.sequence_rows]),
               sequence_rows |-> st.sequence_rows]
         ELSE st
    ELSE LET new == LineProgramRow(r)
             n == Len(st.sequence_rows)
         IN  IF n > 0 /\ st.sequence_rows[n].address = new.address
             THEN [st EXCEPT !.sequence_rows[n] = new]
             ELSE IF n > 0 /\ st.sequence_rows[n].file_index = new.file_index
                     /\ st.sequence_rows[n].line = new.line
                  THEN st
                  ELSE [st EXCEPT !.sequence_rows = Append(@, new)]

\* One turn of the loop of lines 261-292 on the row r.
ParseRow(st, r) ==
    IF r.end_sequence
    THEN IF st.sequence_rows # << >>
         THEN [sequences |-> Append(st.sequences,
                                [start |-> st.sequence_rows[1].address,
                                 end |-> r.address,
                                 rows |-> st.sequence_rows]),
               sequence_rows |-> << >>]
         ELSE st
    ELSE LET new == LineProgramRow(r)
             n == Len(st.sequence_rows)
         IN  IF n > 0 /\ st.sequence_rows[n].address = new.address
             THEN [st EXCEPT !.sequence_rows[n] = new]
             ELSE IF n > 0 /\ st.sequence_rows[n].file_index = new.file_index
                     /\ st.sequence_rows[n].line = new.line
                  THEN st
                  ELSE [st EXCEPT !.sequence_rows = Append(@, new)]

\* Inserts x into the sorted sequence s after every element with key <= x's
\* (a stable insertion).
RECURSIVE InsertByStart(_, _)
InsertByStart(s, x) ==
    IF s = << >> THEN << x >>
    ELSE IF s[1].start <= x.start
         THEN << s[1] >> \o InsertByStart(Tail(s), x)
         ELSE << x >> \o s

RECURSIVE StableSortByStart(_)
StableSortByStart(s) ==
    IF s = << >> THEN << >>
    ELSE InsertByStart(StableSortByStart(SubSeq(s, 1, Len(s) - 1)), s[Len(s)])

\* A faulty variant: the sequences are returned in the order they were closed.
SortByStartMissing(s) == s

\* sequences.sort_by_key(|x| x.start), line 293.
SortByStart(s) == StableSortByStart(s)

(***************************************************************************)
(* The per-unit file cache (PerCuCache::insert_file).                      *)
(***************************************************************************)
\* The file tables (header.file(i)) a unit's line-program header can hold:
\* raw directory and path attributes by unit-local index.
FileTableA ==
    (1 :> [directory |-> Some("d"), path_name |-> "a"])
    @@ (2 :> [directory |-> None, path_name |-> "\\xfe"])
FileTableB == (1 :> [directory |-> None, path_name |-> "\\xff"])
\* An attribute whose string attr_string() cannot read (it returns Err).
Unreadable == "!"
FileTableC ==
    (1 :> [directory |-> Some("d"), path_name |-> Unreadable])
    @@ (2 :> [directory |-> Some(Unreadable), path_name |-> "a"])
FileTables == {FileTableA, FileTableB, FileTableC}

\* insert_file on cv = [strings, files, file_mapping] with the unit's file
\* table: the tables afterwards and the handle returned (ret); err is TRUE
\* when it returns Err (the `?` of lines 191 and 201), and ret then unused.
insert_file(cv, header, file_index) ==
    LET key == AsU32(file_index)
    IN  IF key \in DOMAIN cv.file_mapping
        THEN [strings |-> cv.strings, files |-> cv.files,
              file_mapping |-> cv.file_mapping, ret |-> cv.file_mapping[key],
              err |-> FALSE]
        ELSE IF file_index \notin DOMAIN header
        THEN [strings |-> cv.strings, files |-> cv.files,
              file_mapping |-> cv.file_mapping, ret |-> U32_MAX, err |-> FALSE]
        ELSE IF header[file_index].directory = Some(Unreadable)
        THEN [strings |-> cv.strings, files |-> cv.files,
              file_mapping |-> cv.file_mapping, ret |-> 0, err |-> TRUE]
        ELSE IF header[file_index].path_name = Unreadable
        THEN [strings |-> IF header[file_index].directory # None
                          THEN InsertFull(cv.strings,
                                   ToStringLossy(header[file_index].directory[1])).tbl
                          ELSE cv.strings,
              files |-> cv.files,
              file_mapping |-> cv.file_mapping, ret |-> 0, err |-> TRUE]
        ELSE LET file == header[file_index]
                 d == IF file.directory # None
                      THEN InsertFull(cv.strings, ToStringLossy(file.directory[1]))
                      ELSE [idx |-> 0, tbl |-> cv.strings]
                 directory_idx == IF file.directory # None
                                  THEN Some(AsU32(d.idx)) ELSE None
                 p == InsertFull(d.tbl, ToStringLossy(file.path_name))
                 f == InsertFull(cv.files, [directory_idx |-> directory_idx,
                                            path_name_idx |-> AsU32(p.idx)])
             IN  [strings |-> p.tbl, files |-> f.tbl,
                  file_mapping |-> MapInsert(cv.file_mapping, key, AsU32(f.idx)),
                  ret |-> AsU32(f.idx), err |-> FALSE]

(***************************************************************************)
(* Lines 43-58: the unit's breakpoints from the decoded sequences.         *)
(***************************************************************************)
\* A faulty variant: a row at a key already present does not replace the entry.
InsertRowKeepsFirst(st, header, r) ==
    LET c == insert_file(st, header, r.file_index)
    IN  [strings |-> c.strings, files |-> c.files, file_mapping |-> c.file_mapping,
         lpr |-> IF c.err \/ AsU32(r.address) \in DOMAIN st.lpr THEN st.lpr
                 ELSE MapInsert(st.lpr, AsU32(r.address),
                                [file_idx |-> c.ret, line |-> r.line,
                                 function_idx |-> U32_MAX, inlined_into_idx |-> None]),
         err |-> c.err]

\* One row (lines 46-56) on st = [strings, files, file_mapping, lpr, err]; when
\* insert_file fails the `?` of line 46 returns before the breakpoint is set.
InsertRow(st, header, r) ==
    LET c == insert_file(st, header, r.file_index)
    IN  [strings |-> c.strings, files |-> c.files, file_mapping |-> c.file_mapping,
         lpr |-> IF c.err THEN st.lpr
                 ELSE MapInsert(st.lpr, AsU32(r.address),
                                [file_idx |-> c.ret, line |-> r.line,
                                 function_idx |-> U32_MAX, inlined_into_idx |-> None]),
         err |-> c.err]

\* All rows of all sequences, in order.
RECURSIVE AllRows(_)
AllRows(seqs) ==
    IF seqs = << >> THEN << >> ELSE seqs[1].rows \o AllRows(Tail(seqs))

RECURSIVE InsertRowsOf(_, _, _)
InsertRowsOf(st, header, rows) ==
    IF rows = << >> \/ st.err THEN st
    ELSE InsertRowsOf(InsertRow(st, header, rows[1]), header, Tail(rows))

(***************************************************************************)
(* The range primitive (sub_ranges).                                       *)
(***************************************************************************)
\* The PC ranges die_ranges yields, with begin <= end.
PcRangesOver(pcs) == {r \in [begin : pcs, end : pcs] : r.begin <= r.end}
PcRanges == PcRangesOver(PcValues \cup {MaxPc + 1})

MinOf(S) == CHOOSE x \in S : \A y \in S : x <= y

\* upper_bound, lines 130-135: Some(k) is Bound::Excluded(k), None Unbounded.
UpperBound(m, range) ==
    LET after == {k \in DOMAIN m : k >= AsU32(range.end)}
    IN  IF after # {} THEN Some(MinOf(after)) ELSE None

\* BTreeMap::range_mut panics when the range starts after its end.
SubRangesPanics(m, range) ==
    /\ UpperBound(m, range) # None
    /\ AsU32(range.begin) > UpperBound(m, range)[1]

\* The keys of the view sub_ranges returns (when it does not panic).
sub_ranges(m, range) ==
    {k \in DOMAIN m :
        /\ k >= AsU32(range.begin)
        /\ UpperBound(m, range) # None => k < UpperBound(m, range)[1]}

(***************************************************************************)
(* Lines 84-99: what one PC range does to the unit's breakpoints.          *)
(***************************************************************************)
\* A faulty variant: the caller location does not inherit the callee's chain.
AttributeKeyNoInherit(st, k, caller_file, caller_line) ==
    LET callee == st.lpr[k]
        caller == [callee EXCEPT !.file_idx = caller_file, !.line = caller_line,
                                 !.inlined_into_idx = None]
        r == insert_source_location(st.source_locations, caller)
    IN  [lpr |-> [st.lpr EXCEPT ![k].inlined_into_idx = Some(r.idx),
                                ![k].function_idx = U32_MAX],
         source_locations |-> r.tbl]

\* A faulty variant: the caller location keeps the callee's line.
AttributeKeyCalleeLine(st, k, caller_file, caller_line) ==
    LET callee == st.lpr[k]
        caller == [callee EXCEPT !.file_idx = caller_file]
        r == insert_source_location(st.source_locations, caller)
    IN  [lpr |-> [st.lpr EXCEPT ![k].inlined_into_idx = Some(r.idx),
                                ![k].function_idx = U32_MAX],
         source_locations |-> r.tbl]

\* A faulty variant: the callee is given the handle after the caller's.
AttributeKeyNextHandle(st, k, caller_file, caller_line) ==
    LET callee == st.lpr[k]
        caller == [callee EXCEPT !.file_idx = caller_file, !.line = caller_line]
        r == insert_source_location(st.source_locations, caller)
    IN  [lpr |-> [st.lpr EXCEPT ![k].inlined_into_idx = Some(r.idx + 1),
                                ![k].function_idx = U32_MAX],
         source_locations |-> r.tbl]

\* Lines 85-91 for the breakpoint at key k, on st = [lpr, source_locations].
AttributeKey(st, k, caller_file, caller_line) ==
    LET callee == st.lpr[k]
        caller == [callee EXCEPT !.file_idx = caller_file, !.line = caller_line]
        r == insert_source_location(st.source_locations, caller)
    IN  [lpr |-> [st.lpr EXCEPT ![k].inlined_into_idx = Some(r.idx),
                                ![k].function_idx = U32_MAX],
         source_locations |-> r.tbl]

\* The loop of line 84 over the view, in key order.
RECURSIVE AttributeKeys(_, _, _, _)
AttributeKeys(st, keys, caller_file, caller_line) ==
    IF keys = << >> THEN st
    ELSE AttributeKeys(AttributeKey(st, keys[1], caller_file, caller_line),
                       Tail(keys), caller_file, caller_line)

\* A faulty variant: a subprogram range also cuts the chain of its breakpoints.
MarkFunctionCutsChain(lpr, keys) ==
    [k \in DOMAIN lpr |->
        IF k \in keys
        THEN [lpr[k] EXCEPT !.function_idx = U32_MAX, !.inlined_into_idx = None]
        ELSE lpr[k]]

\* The loop of lines 97-99: only the function field is written.
MarkFunction(lpr, keys) ==
    [k \in DOMAIN lpr |->
        IF k \in keys THEN [lpr[k] EXCEPT !.function_idx = U32_MAX] ELSE lpr[k]]

(***************************************************************************)
(* Lines 104-116: the merge into the global range index.                   *)
(***************************************************************************)
\* A faulty variant: an occupied address is overwritten by the later unit.
MergeKeyOverwrite(st, lpr, addr) ==
    LET r == insert_source_location(st.source_locations, lpr[addr])
    IN  [source_locations |-> r.tbl, ranges |-> MapInsert(st.ranges, addr, r.idx)]

\* One turn of the loop on st = [source_locations, ranges].
MergeKey(st, lpr, addr) ==
    LET r == insert_source_location(st.source_locations, lpr[addr])
    IN  [source_locations |-> r.tbl,
         ranges |-> IF addr \notin DOMAIN st.ranges
                    THEN MapInsert(st.ranges, addr, r.idx)
                    ELSE st.ranges]

RECURSIVE MergeKeys(_, _, _)
MergeKeys(st, lpr, keys) ==
    IF keys = << >> THEN st
    ELSE MergeKeys(MergeKey(st, lpr, keys[1]), lpr, Tail(keys))

(***************************************************************************)
(* The lookup (section 4.6 of the specification).                          *)
(***************************************************************************)
\* Whether the chain from handle h reaches a location without inlined_into
\* within fuel steps.
RECURSIVE ChainEnds(_, _, _)
ChainEnds(tbl, h, fuel) ==
    /\ h + 1 \in 1..Len(tbl)
    /\ \/ tbl[h + 1].inlined_into_idx = None
       \/ fuel > 0 /\ ChainEnds(tbl, tbl[h + 1].inlined_into_idx[1], fuel - 1)

\* The frames from handle h on: the location, then its inlined_into chain
\* (cut after fuel steps).
RECURSIVE Chain(_, _, _)
Chain(tbl, h, fuel) ==
    IF h + 1 \notin 1..Len(tbl) THEN << >>
    ELSE IF tbl[h + 1].inlined_into_idx = None \/ fuel = 0 THEN << tbl[h + 1] >>
    ELSE << tbl[h + 1] >> \o Chain(tbl, tbl[h + 1].inlined_into_idx[1], fuel - 1)

\* lookup(address) on the index idx and the table tbl: a floor query, then
\* the chain.
Lookup(idx, tbl, address) ==
    LET below == {k \in DOMAIN idx : k <= address}
    IN  IF below = {} THEN << >>
        ELSE Chain(tbl, idx[CHOOSE k \in below : \A j \in below : j <= k], MaxChain)

(***************************************************************************)
(* The state of a conversion.                                              *)
(***************************************************************************)
VARIABLES
    strings,             \* Converter.strings
    files,               \* Converter.files
    source_locations,    \* Converter.source_locations
    ranges,              \* Converter.ranges, the global range index
    file_mapping,        \* ReusableCaches.file_mapping
    header,              \* the unit's file table (PerCuCache.header)
    sequences,           \* parse_line_program's sequences
    sequence_rows,       \* parse_line_program's sequence_rows
    row,                 \* the row next_row() returned last
    cu_sequences,        \* process_dwarf_cu's sequences (line 40)
    line_program_ranges, \* the unit's breakpoints (line 43)
    depth,               \* line 61
    is_inlined_subroutine, caller_file, caller_line,   \* lines 66-76
    range,               \* the range of line 79
    view,                \* the keys of the view sub_ranges returned last
    pc,                  \* where the conversion stands
    units_done,          \* units process_dwarf_cu returned from
    nrows, nentries, nranges,   \* rows, entries below a root and ranges read so far
    program,             \* history: the rows next_row() yielded to this parse
    cu_walked,           \* history: entries next_dfs yielded in the last unit
    cu_entries,          \* history: the last unit's subprogram and inlined entries,
                         \* each with the call-file read, the locals of lines
                         \* 66-76 and the PC ranges read for it
    merged,              \* history: each merged unit's breakpoints, in order
    result               \* what process_dwarf returned: None while it runs

vars == << strings, files, source_locations, ranges, file_mapping, header,
           sequences, sequence_rows, row, cu_sequences, line_program_ranges,
           depth, is_inlined_subroutine, caller_file, caller_line, range, view,
           pc, units_done, nrows, nentries, nranges, program, cu_walked,
           cu_entries, merged, result >>

converter == << strings, files, source_locations, ranges >>
decoder == << sequences, sequence_rows, row >>
entry_locals == << is_inlined_subroutine, caller_file, caller_line >>
sub_locals == << range, view >>
history == << program, cu_walked, cu_entries, merged >>
counters == << nrows, nentries, nranges >>

NoRange == [begin |-> 0, end |-> 0]

\* A faulty variant: an error of a unit is dropped and the next unit is read.
OnErrorNextUnit == "units"

\* The `?` of lines 20-22: an Err of the reader or of process_dwarf_cu is
\* returned by process_dwarf at once.
OnError == "failed"

\* Converter::new(), and process_dwarf before its first unit.
Init ==
    /\ strings = << >> /\ files = << >> /\ source_locations = << >>
    /\ ranges = EmptyMap
    /\ file_mapping = EmptyMap
    /\ header = EmptyMap
    /\ sequences = << >> /\ sequence_rows = << >> /\ row = NoRow
    /\ cu_sequences = << >>
    /\ line_program_ranges = EmptyMap
    /\ depth = 0
    /\ is_inlined_subroutine = FALSE /\ caller_file = 0 /\ caller_line = 0
    /\ range = NoRange /\ view = {}
    /\ pc = "units"
    /\ units_done = 0
    /\ nrows = 0 /\ nentries = 0 /\ nranges = 0
    /\ program = << >>
    /\ cu_walked = 0
    /\ cu_entries = << >>
    /\ merged = << >>
    /\ result = None

\* A faulty variant: skipping a unit empties the global index.
SkipUnitDropsIndex ==
    /\ pc = "units"
    /\ units_done < MaxUnits
    /\ units_done' = units_done + 1
    /\ ranges' = EmptyMap
    /\ UNCHANGED << strings, files, source_locations, file_mapping, header, decoder,
                    cu_sequences, line_program_ranges, depth, entry_locals,
                    sub_locals, pc, counters, history, result >>

\* Lines 20-22 and 34-37: a unit without a line program is skipped.
SkipUnit ==
    /\ pc = "units"
    /\ units_done < MaxUnits
    /\ units_done' = units_done + 1
    /\ UNCHANGED << converter, file_mapping, header, decoder, cu_sequences,
                    line_program_ranges, depth, entry_locals, sub_locals, pc,
                    counters, history, result >>

\* Lines 20-22, 34-39 and 258-260: a unit with a line program; the cache is
\* cleared and the decoder starts.
BeginUnit(h) ==
    /\ pc = "units"
    /\ units_done < MaxUnits
    /\ file_mapping' = EmptyMap
    /\ header' = h
    /\ pc' = "parse"
    /\ program' = << >> /\ cu_walked' = 0 /\ cu_entries' = << >>
    /\ UNCHANGED << converter, decoder, cu_sequences, line_program_ranges, depth,
                    entry_locals, sub_locals, units_done, counters, merged,
                    result >>

\* Lines 261-292: next_row() yields the row r.
ReadRow(r) ==
    /\ pc = "parse"
    /\ nrows' = nrows + 1
    /\ row' = r
    /\ program' = Append(program, r)
    /\ LET st == ParseRow([sequences |-> sequences, sequence_rows |-> sequence_rows], r)
       IN  /\ sequences' = st.sequences
           /\ sequence_rows' = st.sequence_rows
    /\ UNCHANGED << converter, file_mapping, header, cu_sequences,
                    line_program_ranges, depth, entry_locals, sub_locals, pc,
                    units_done, nentries, nranges, cu_walked, cu_entries, merged,
                    result >>

\* Lines 261 and 293-295: next_row() yields None; the sequences are sorted and
\* returned to line 40.
ParseReturn ==
    /\ pc = "parse"
    /\ cu_sequences' = SortByStart(sequences)
    /\ row' = NoRow
    /\ pc' = "rows"
    /\ UNCHANGED << converter, file_mapping, header, sequences, sequence_rows,
                    line_program_ranges, depth, entry_locals, sub_locals,
                    units_done, counters, history, result >>

\* Lines 43-62: the breakpoints of the unit, then the walk starts; when
\* insert_file fails, line 46 returns its error and the breakpoints are dropped.
InsertRows ==
    /\ pc = "rows"
    /\ LET st == InsertRowsOf([strings |-> strings, files |-> files,
                               file_mapping |-> file_mapping, lpr |-> EmptyMap,
                               err |-> FALSE],
                              header, AllRows(cu_sequences))
       IN  /\ strings' = st.strings
           /\ files' = st.files
           /\ file_mapping' = st.file_mapping
           /\ line_program_ranges' = IF st.err THEN EmptyMap ELSE st.lpr
           /\ pc' = IF st.err THEN OnError ELSE "entries"
           /\ result' = IF st.err THEN Some("Err") ELSE result
    /\ sequences' = << >> /\ sequence_rows' = << >>
    /\ cu_sequences' = << >>
    /\ program' = << >>
    /\ depth' = 0
    /\ UNCHANGED << source_locations, ranges, header, row, entry_locals,
                    sub_locals, units_done, counters, cu_walked, cu_entries, merged >>

\* What the reader yields for an entry: its tag, call-file and call-line.
Tags == {"subprogram", "inlined_subroutine", "other"}
CallFiles == {None, Some(2)}
CallLines == {Some(MaxLine + 1)}

\* Lines 63-78: next_dfs yields an entry at depth d. The first entry of a unit
\* is its root (a compile unit, depth 0); every other entry lies below it.
NextEntry(tag, d, call_file, call_line) ==
    /\ pc = "entries"
    /\ IF cu_walked = 0
       THEN tag = "other" /\ d = 0 /\ UNCHANGED nentries
       ELSE d \in 1..MaxDepth /\ d <= depth + 1
            /\ nentries' = nentries + 1
    /\ cu_walked' = cu_walked + 1
    /\ depth' = depth + (d - depth)
    /\ IF tag = "other"
       THEN UNCHANGED << strings, files, file_mapping, entry_locals, pc, cu_entries,
                         result >>
       ELSE LET c == IF call_file # None
                     THEN insert_file([strings |-> strings, files |-> files,
                                       file_mapping |-> file_mapping],
                                      header, call_file[1])
                     ELSE [strings |-> strings, files |-> files,
                           file_mapping |-> file_mapping, ret |-> 0,
                           err |-> FALSE]
                l == IF call_line # None THEN AsU32(call_line[1]) ELSE 0
            IN  /\ strings' = c.strings
                /\ files' = c.files
                /\ file_mapping' = c.file_mapping
                /\ IF c.err
                   THEN /\ pc' = OnError
                        /\ result' = Some("Err")
                        /\ UNCHANGED << entry_locals, cu_entries >>
                   ELSE /\ is_inlined_subroutine' = (tag = "inlined_subroutine")
                        /\ caller_file' = c.ret
                        /\ caller_line' = l
                        /\ cu_entries' = Append(cu_entries,
                                               [inlined |-> tag = "inlined_subroutine",
                                                depth |-> d, call_file |-> call_file,
                                                caller_file |-> c.ret,
                                                caller_line |-> l, ranges |-> << >>])
                        /\ pc' = "ranges"
                        /\ UNCHANGED result
    /\ UNCHANGED << source_locations, ranges, header, decoder, cu_sequences,
                    line_program_ranges, sub_locals, units_done, nrows, nranges,
                    program, merged >>

\* Lines 79-100: die_ranges yields the range rg; sub_ranges may panic.
NextRange(rg) ==
    /\ pc = "ranges"
    /\ nranges' = nranges + 1
    /\ range' = rg
    /\ cu_entries' = [cu_entries EXCEPT ![Len(cu_entries)].ranges = Append(@, rg)]
    /\ IF SubRangesPanics(line_program_ranges, rg)
       THEN /\ pc' = "panicked"
            /\ UNCHANGED << source_locations, line_program_ranges, view >>
       ELSE /\ pc' = pc
            /\ view' = sub_ranges(line_program_ranges, rg)
            /\ IF is_inlined_subroutine
               THEN LET st == AttributeKeys(
                                [lpr |-> line_program_ranges,
                                 source_locations |-> source_locations],
                                SortedSeq(sub_ranges(line_program_ranges, rg)),
                                caller_file, caller_line)
                    IN  /\ line_program_ranges' = st.lpr
                        /\ source_locations' = st.source_locations
               ELSE /\ line_program_ranges' =
                          MarkFunction(line_program_ranges,
                                       sub_ranges(line_program_ranges, rg))
                    /\ UNCHANGED source_locations
    /\ UNCHANGED << strings, files, ranges, file_mapping, header, decoder,
                    cu_sequences, depth, entry_locals, units_done, nrows, nentries,
                    program, cu_walked, merged, result >>

\* Line 79: the entry has no further range.
RangesDone ==
    /\ pc = "ranges"
    /\ pc' = "entries"
    /\ range' = NoRange /\ view' = {}
    /\ UNCHANGED << converter, file_mapping, header, decoder, cu_sequences,
                    line_program_ranges, depth, entry_locals, units_done, counters,
                    history, result >>

\* Lines 63 and 104-118: the walk is over; the unit's breakpoints are merged
\* into the global index and process_dwarf_cu returns, dropping its locals.
Merge ==
    /\ pc = "entries"
    /\ cu_walked > 0
    /\ LET st == MergeKeys([source_locations |-> source_locations, ranges |-> ranges],
                           line_program_ranges,
                           SortedSeq(DOMAIN line_program_ranges))
       IN  /\ source_locations' = st.source_locations
           /\ ranges' = st.ranges
    /\ merged' = Append(merged, line_program_ranges)
    /\ line_program_ranges' = EmptyMap
    /\ header' = EmptyMap
    /\ depth' = 0
    /\ is_inlined_subroutine' = FALSE /\ caller_file' = 0 /\ caller_line' = 0
    /\ units_done' = units_done + 1
    /\ pc' = "units"
    /\ UNCHANGED << strings, files, file_mapping, decoder, cu_sequences,
                    sub_locals, counters, program, cu_walked, cu_entries, result >>

\* Lines 20 and 24: no further unit; process_dwarf returns Ok.
Finish ==
    /\ pc = "units"
    /\ pc' = "done"
    /\ result' = Some("Ok")
    /\ UNCHANGED << converter, file_mapping, header, decoder, cu_sequences,
                    line_program_ranges, depth, entry_locals, sub_locals,
                    units_done, counters, history >>

\* A faulty variant: the breakpoints of the failing unit are merged before the
\* error is returned.
ReaderFailsMergesUnit ==
    /\ pc \in {"units", "parse", "entries", "ranges"}
    /\ pc = "units" => units_done < MaxUnits
    /\ pc' = OnError
    /\ result' = Some("Err")
    /\ LET st == MergeKeys([source_locations |-> source_locations, ranges |-> ranges],
                           line_program_ranges,
                           SortedSeq(DOMAIN line_program_ranges))
       IN  /\ source_locations' = st.source_locations
           /\ ranges' = st.ranges
    /\ sequences' = << >> /\ sequence_rows' = << >> /\ row' = NoRow
    /\ line_program_ranges' = EmptyMap
    /\ depth' = 0
    /\ range' = NoRange /\ view' = {}
    /\ UNCHANGED << strings, files, file_mapping, header, cu_sequences, entry_locals,
                    units_done, counters, history >>

\* The `?` of lines 20 and 21 (the unit header, the unit), 40 and 261 (a row),
\* 63 (an entry), 71 and 226 (an attribute), 78 and 79 (a PC range): the reader
\* returns Err; process_dwarf_cu drops its locals and the error is returned.
ReaderFails ==
    /\ pc \in {"units", "parse", "entries", "ranges"}
    /\ pc = "units" => units_done < MaxUnits
    /\ pc' = OnError
    /\ result' = Some("Err")
    /\ sequences' = << >> /\ sequence_rows' = << >> /\ row' = NoRow
    /\ line_program_ranges' = EmptyMap
    /\ depth' = 0
    /\ range' = NoRange /\ view' = {}
    /\ UNCHANGED << converter, file_mapping, header, cu_sequences, entry_locals,
                    units_done, counters, history >>

\* A whole conversion, of several units.
Next ==
    \/ SkipUnit
    \/ \E h \in FileTables : BeginUnit(h)
    \/ \E r \in UnitRows : nrows < MaxUnitRows /\ ReadRow(r)
    \/ ParseReturn
    \/ InsertRows
    \/ \E tag \in Tags, d \in 0..MaxDepth, cf \in CallFiles, cl \in CallLines :
          (cu_walked > 0 => nentries < MaxUnitEntries) /\ NextEntry(tag, d, cf, cl)
    \/ \E rg \in PcRangesOver(0..MaxPc) : nranges < MaxUnitRanges /\ NextRange(rg)
    \/ RangesDone
    \/ Merge
    \/ Finish
    \/ ReaderFails

Spec == Init /\ [][Next]_vars

\* The walk of one unit in detail.
NextWalk ==
    \/ units_done = 0 /\ BeginUnit(FileTableA)
    \/ \E r \in WalkRows : nrows < MaxWalkRows /\ ReadRow(r)
    \/ ParseReturn
    \/ InsertRows
    \/ \E tag \in Tags, d \in 0..MaxDepth, cf \in CallFiles, cl \in CallLines :
          (cu_walked > 0 => nentries < MaxWalkEntries) /\ NextEntry(tag, d, cf, cl)
    \/ \E rg \in PcRanges : nranges < MaxWalkRanges /\ NextRange(rg)
    \/ RangesDone
    \/ Merge

SpecWalk == Init /\ [][NextWalk]_vars

\* The decoder of one unit in detail.
NextDecoder ==
    \/ units_done = 0 /\ BeginUnit(FileTableA)
    \/ \E r \in DecoderRows : nrows < MaxRows /\ ReadRow(r)
    \/ ParseReturn

SpecDecoder == Init /\ [][NextDecoder]_vars

\* The file cache in detail: units with any of the file tables, rows of the
\* files 1 and 2, and entries whose call-file is an index of the table, an
\* index without an entry, or an index of 2^32 and more.
WideFile == WidePc + 1
FileRows == Rows({0}, 1..2, {1}, {1})
FileCalls == {Some(1), Some(3), Some(WideFile)}

NextFiles ==
    \/ \E h \in FileTables : BeginUnit(h)
    \/ \E r \in FileRows : nrows < MaxFileRows /\ ReadRow(r)
    \/ ParseReturn
    \/ InsertRows
    \/ \E tag \in {"subprogram", "other"}, cf \in FileCalls, cl \in CallLines :
          (cu_walked > 0 => nentries < MaxFileEntries)
          /\ NextEntry(tag, IF cu_walked = 0 THEN 0 ELSE 1, cf, cl)
    \/ RangesDone
    \/ Merge

SpecFiles == Init /\ [][NextFiles]_vars

\* sub_ranges alone: a subprogram entry has been read, the unit's breakpoints
\* are any map over the keys 0..MaxPc+1, and die_ranges yields one range.
SubRangesMaps ==
    UNION {[ks -> {[file_idx |-> 0, line |-> 1, function_idx |-> U32_MAX,
                    inlined_into_idx |-> None]}] : ks \in SUBSET (0..(MaxPc + 1))}

InitSubRanges ==
    /\ strings = << "a" >> /\ source_locations = << >>
    /\ files = << [directory_idx |-> None, path_name_idx |-> 0] >>
    /\ ranges = EmptyMap
    /\ file_mapping = (1 :> 0)
    /\ header = FileTableB
    /\ sequences = << >> /\ sequence_rows = << >> /\ row = NoRow
    /\ cu_sequences = << >>
    /\ line_program_ranges \in SubRangesMaps
    /\ depth = 1
    /\ is_inlined_subroutine = FALSE /\ caller_file = 0 /\ caller_line = 0
    /\ range = NoRange /\ view = {}
    /\ pc = "ranges"
    /\ units_done = 0
    /\ nrows = 0 /\ nentries = 1 /\ nranges = 0
    /\ program = << >>
    /\ cu_walked = 2
    /\ cu_entries = << [inlined |-> FALSE, depth |-> 1, call_file |-> None,
                        caller_file |-> 0, caller_line |-> 0, ranges |-> << >>] >>
    /\ merged = << >>
    /\ result = None

NextSubRanges == \E rg \in PcRanges : nranges < 1 /\ NextRange(rg)

SpecSubRanges == InitSubRanges /\ [][NextSubRanges]_vars

(***************************************************************************)
(* Helpers of the properties.                                              *)
(***************************************************************************)
MaxOf(S) == CHOOSE x \in S : \A y \in S : y <= x

Last(q) == q[Len(q)]

NoDuplicates(tbl) == \A i, j \in 1..Len(tbl) : tbl[i] = tbl[j] => i = j

IsPrefix(p, q) == Len(p) <= Len(q) /\ \A i \in 1..Len(p) : p[i] = q[i]

\* The greatest key of the map m that is <= a (one must exist).
FloorKey(m, a) == MaxOf({k \in DOMAIN m : k <= a})

\* The inlined_into links followed from the location loc.
Links(loc) ==
    IF loc.inlined_into_idx = None THEN 0
    ELSE Len(Chain(source_locations, loc.inlined_into_idx[1], MaxChain))

\* The (entry, range) pairs of the last unit's inlined-subroutine entries.
InlinedRanges ==
    UNION {{<< i, j >> : j \in 1..Len(cu_entries[i].ranges)} :
              i \in {n \in 1..Len(cu_entries) : cu_entries[n].inlined}}

RangeOf(p) == cu_entries[p[1]].ranges[p[2]]

\* The depth of the deepest inlined-subroutine entry of the unit (0: none).
InlinedNesting ==
    MaxOf({0} \cup {cu_entries[i].depth : i \in {j \in 1..Len(cu_entries) :
                                                  cu_entries[j].inlined}})

(***************************************************************************)
(* C1. sub_ranges returns exactly the entries whose key k satisfies        *)
(* begin <= k < upper, where upper is the smallest key >= end if there is  *)
(* one and unbounded otherwise, for every breakpoint map and every range   *)
(* with begin <= end.                                                      *)
(***************************************************************************)
ClaimedView(m, rg) ==
    LET after == {k \in DOMAIN m : k >= rg.end}
    IN  {k \in DOMAIN m : rg.begin <= k /\ (after # {} => k < MinOf(after))}

C1_SubRangesView ==
    (nranges > 0 /\ range.begin <= range.end)
        => /\ pc # "panicked"
           /\ view = ClaimedView(line_program_ranges, range)

\* The same for the ranges that end below 2^32, where `as u32` changes nothing.
C1_SubRangesViewBelow2Pow32 ==
    (nranges > 0 /\ range.begin <= range.end /\ range.end <= U32_MAX)
        => /\ pc # "panicked"
           /\ view = ClaimedView(line_program_ranges, range)

(***************************************************************************)
(* C2. After a unit with one function and one inlined-subroutine entry in  *)
(* it, whose PC range [b, e) lies within the addresses the unit's rows     *)
(* cover, lookup(a) yields for every a in [b, e) exactly two frames: the   *)
(* callee's line-table location active at a, then the call site.  (Stated  *)
(* for a range between the first and the last row address of the unit.)    *)
(***************************************************************************)
C2_InlinedTwoFrames ==
    (/\ pc = "units" /\ Len(merged) = 1 /\ DOMAIN merged[1] # {}
     /\ Len(cu_entries) = 2
     /\ ~cu_entries[1].inlined /\ cu_entries[1].ranges = << >>
     /\ cu_entries[2].inlined /\ cu_entries[2].depth = cu_entries[1].depth + 1
     /\ Len(cu_entries[2].ranges) = 1
     /\ cu_entries[2].ranges[1].begin < cu_entries[2].ranges[1].end
     /\ cu_entries[2].ranges[1].begin >= MinOf(DOMAIN merged[1])
     /\ cu_entries[2].ranges[1].end <= MaxOf(DOMAIN merged[1]))
    => \A a \in cu_entries[2].ranges[1].begin .. (cu_entries[2].ranges[1].end - 1) :
          LET frames == Lookup(ranges, source_locations, a)
              active == merged[1][FloorKey(merged[1], a)]
          IN  /\ Len(frames) = 2
              /\ frames[1].file_idx = active.file_idx
              /\ frames[1].line = active.line
              /\ frames[2].file_idx = cu_entries[2].caller_file
              /\ frames[2].line = cu_entries[2].caller_line
              /\ frames[2].inlined_into_idx = None

(***************************************************************************)
(* C3. After a unit, lookup(a) yields exactly one frame, without           *)
(* inlined_into, for every address a the unit's breakpoints cover that     *)
(* lies outside every inlined-subroutine PC range.  (Stated for units      *)
(* whose inlined ranges end below 2^32.)                                   *)
(***************************************************************************)
C3_OutsideOneFrame ==
    (/\ pc = "units" /\ Len(merged) = 1 /\ DOMAIN merged[1] # {}
     /\ \A p \in InlinedRanges : RangeOf(p).end <= U32_MAX)
    => \A a \in MinOf(DOMAIN merged[1]) .. MaxOf(DOMAIN merged[1]) :
          (\A p \in InlinedRanges : ~(RangeOf(p).begin <= a /\ a < RangeOf(p).end))
          => LET frames == Lookup(ranges, source_locations, a)
             IN  Len(frames) = 1 /\ frames[1].inlined_into_idx = None

(***************************************************************************)
(* C4. The merge is first-writer-wins: every address of the global index   *)
(* holds the location of the first unit, in processing order, that had a   *)
(* breakpoint there; a later unit's breakpoint at that address is dropped. *)
(***************************************************************************)
FirstUnitAt(a) == MinOf({i \in 1..Len(merged) : a \in DOMAIN merged[i]})

C4_FirstWriterWins ==
    /\ DOMAIN ranges = UNION {DOMAIN merged[i] : i \in 1..Len(merged)}
    /\ \A a \in DOMAIN ranges :
          /\ ranges[a] + 1 \in 1..Len(source_locations)
          /\ source_locations[ranges[a] + 1] = merged[FirstUnitAt(a)][a]
    /\ pc # "panicked"

\* Two units were merged with different locations at one address.
C4_Witness ==
    /\ Len(merged) = 2
    /\ \E a \in DOMAIN merged[1] \cap DOMAIN merged[2] : merged[1][a] # merged[2][a]

(***************************************************************************)
(* C5. The inlined_into links form no cycle: every inlined_into handle     *)
(* stored in a location, or in a breakpoint of the unit being walked,      *)
(* refers to a location interned strictly earlier, so the chain of every   *)
(* indexed address ends.                                                   *)
(***************************************************************************)
C5_ChainsEnd ==
    /\ \A i \in 1..Len(source_locations) :
          source_locations[i].inlined_into_idx # None
              => source_locations[i].inlined_into_idx[1] < i - 1
    /\ \A k \in DOMAIN line_program_ranges :
          line_program_ranges[k].inlined_into_idx # None
              => line_program_ranges[k].inlined_into_idx[1] < Len(source_locations)
    /\ \A a \in DOMAIN ranges :
          ChainEnds(source_locations, ranges[a], Len(source_locations))

\* The index holds an address whose lookup yields three frames.
C5_Witness ==
    \E a \in DOMAIN ranges : Len(Lookup(ranges, source_locations, a)) = 3

Containing(k) ==
    {p \in InlinedRanges : AsU32(RangeOf(p).begin) <= k /\ k < AsU32(RangeOf(p).end)}

Elements(tbl) == {tbl[i] : i \in 1..Len(tbl)}

InsertsRight(tbl, v) ==
    LET r == InsertFull(tbl, v)
    IN  /\ r.tbl[r.idx + 1] = v
        /\ InsertFull(r.tbl, v) = r
        /\ IF v \in Elements(tbl)
           THEN r.tbl = tbl
           ELSE r.idx = Len(tbl) /\ r.tbl = Append(tbl, v)

SomeStrings == {"a", "d", "?", "z"}
SomeFiles == [directory_idx : {None, Some(0), Some(1)}, path_name_idx : 0..2]
SomeLocations ==
    [file_idx : {0, 1}, line : {1, MaxLine + 1}, function_idx : {U32_MAX},
     inlined_into_idx : {None, Some(0)}]

C7_TablesIntern ==
    /\ NoDuplicates(strings) /\ NoDuplicates(files) /\ NoDuplicates(source_locations)
    /\ \A v \in SomeStrings : InsertsRight(strings, v)
    /\ \A v \in SomeFiles : InsertsRight(files, v)
    /\ \A v \in SomeLocations : InsertsRight(source_locations, v)

C7_TablesStable ==
    [][/\ IsPrefix(strings, strings')
       /\ IsPrefix(files, files')
       /\ IsPrefix(source_locations, source_locations')]_vars

C7_Interning == []C7_TablesIntern /\ C7_TablesStable

\* Two units produced the same file and the same location, interned once.
C7_Witness ==
    /\ Len(merged) = 2
    /\ Len(files) = 1 /\ Len(source_locations) = 1
    /\ merged[1] # EmptyMap /\ merged[2] # EmptyMap

(***************************************************************************)
(* C8. Decoder collapse: when the decoder reads a normal row at the        *)
(* address of the last accumulated row of the current sequence, no row is  *)
(* appended and that last row takes the file and line of the row read; so  *)
(* no two adjacent accumulated rows share an address, and an accumulated   *)
(* last row at the address of the row just read carries that row's values. *)
(***************************************************************************)
ReadsNormalRow == pc = "parse" /\ nrows' = nrows + 1 /\ ~row'.end_sequence

NoAdjacentAddress(rows) ==
    \A i \in 1..(Len(rows) - 1) : rows[i].address # rows[i + 1].address

C8_LastRowIsLastRead ==
    /\ NoAdjacentAddress(sequence_rows)
    /\ \A i \in 1..Len(sequences) : NoAdjacentAddress(sequences[i].rows)
    /\ (/\ pc = "parse"
        /\ program # << >>
        /\ ~Last(program).end_sequence
        /\ sequence_rows # << >>
        /\ Last(sequence_rows).address = Last(program).address)
           => /\ Last(sequence_rows).file_index = AsU32(Last(program).file_index)
              /\ Last(sequence_rows).line = AsU32(Last(program).line)

C8_CollapseStep ==
    [][(/\ ReadsNormalRow
        /\ sequence_rows # << >>
        /\ Last(sequence_rows).address = row'.address)
           => /\ sequences' = sequences
              /\ Len(sequence_rows') = Len(sequence_rows)
              /\ SubSeq(sequence_rows', 1, Len(sequence_rows) - 1)
                    = SubSeq(sequence_rows, 1, Len(sequence_rows) - 1)
              /\ Last(sequence_rows').address = row'.address
              /\ Last(sequence_rows').file_index = AsU32(row'.file_index)
              /\ Last(sequence_rows').line = AsU32(row'.line)]_vars

C8_DecoderCollapse == []C8_LastRowIsLastRead /\ C8_CollapseStep

\* Two rows at one address with different values were read; one row is
\* accumulated and carries the values of the second.
C8_Witness ==
    /\ pc = "parse"
    /\ Len(program) = 2
    /\ ~program[1].end_sequence /\ ~program[2].end_sequence
    /\ program[1].address = program[2].address
    /\ program[1].file_index # program[2].file_index
    /\ program[1].line # program[2].line
    /\ sequence_rows = << LineProgramRow(program[2]) >>

(***************************************************************************)
(* C9. Decoder dedup: when the decoder reads a normal row at an address    *)
(* other than the last accumulated row's, with the file and line of that   *)
(* last accumulated row, the row is dropped and the accumulated rows and   *)
(* the closed sequences are unchanged.                                     *)
(***************************************************************************)
C9_DecoderDedup ==
    [][(/\ ReadsNormalRow
        /\ sequence_rows # << >>
        /\ Last(sequence_rows).address # row'.address
        /\ Last(sequence_rows).file_index = AsU32(row'.file_index)
        /\ Last(sequence_rows).line = AsU32(row'.line))
           => /\ sequence_rows' = sequence_rows
              /\ sequences' = sequences]_vars

\* Two rows at different addresses with the same file and line were read;
\* only the first is accumulated.
C9_Witness ==
    /\ pc = "parse"
    /\ Len(program) = 2
    /\ ~program[1].end_sequence /\ ~program[2].end_sequence
    /\ program[1].address # program[2].address
    /\ program[1].file_index = program[2].file_index
    /\ program[1].line = program[2].line
    /\ sequence_rows = << LineProgramRow(program[1]) >>

(***************************************************************************)
(* C10. Sequence ordering: the sequences parse_line_program returns are    *)
(* sorted by non-decreasing start and are the sequences that were closed,  *)
(* each as often as it was closed, whatever the order they were closed in. *)
(***************************************************************************)
Occurrences(s, x) == Cardinality({i \in 1..Len(s) : s[i] = x})

C10_SequencesSorted ==
    pc = "rows"
        => /\ \A i \in 1..(Len(cu_sequences) - 1) :
                 cu_sequences[i].start <= cu_sequences[i + 1].start
           /\ Len(cu_sequences) = Len(sequences)
           /\ \A i \in 1..Len(sequences) :
                 Occurrences(cu_sequences, sequences[i])
                    = Occurrences(sequences, sequences[i])

\* The decoder returned two sequences that were closed in descending order
\* of start.
C10_Witness ==
    /\ pc = "rows"
    /\ Len(sequences) = 2
    /\ sequences[1].start > sequences[2].start
    /\ cu_sequences = << sequences[2], sequences[1] >>

(***************************************************************************)
(* C11. Fail-fast: when a read of the unit header, the line program, a     *)
(* debug entry, an attribute string or a PC range fails, process_dwarf     *)
(* returns the error at once: the conversion stands at its failed end and  *)
(* no step, of this unit or of a later one, follows.                       *)
(***************************************************************************)
C11_ErrorIsReturned == result = Some("Err") => pc = "failed"

C11_NoStepAfterReturn == [][result = None]_vars

C11_FailFast == []C11_ErrorIsReturned /\ C11_NoStepAfterReturn

\* The second unit failed after the first was merged, and a further unit
\* could have been read.
C11_Witness ==
    /\ result = Some("Err")
    /\ Len(merged) = 1 /\ units_done = 1
    /\ units_done < MaxUnits

(***************************************************************************)
(* C12. Nested inlining builds the chain innermost-first: each attribution *)
(* of a breakpoint B interns the caller location {call-file, call-line,    *)
(* inlined_into = B's inlined_into before the step} and stores its handle  *)
(* in B; so B's chain is the call sites of the inlined-subroutine ranges   *)
(* that contain B, the one walked last (the innermost) first, and ends at  *)
(* the call site of the one walked first (the outermost).                  *)
(***************************************************************************)
\* The (entry, range) pairs of S in the order the walk read them.
RECURSIVE WalkOrder(_)
WalkOrder(S) ==
    IF S = {} THEN << >>
    ELSE LET m == CHOOSE p \in S :
                    \A q \in S : p[1] < q[1] \/ (p[1] = q[1] /\ p[2] <= q[2])
         IN  << m >> \o WalkOrder(S \ {m})

\* The call sites of the ranges containing key k, the last walked first.
CallSitesAbove(k) ==
    LET w == WalkOrder(Containing(k))
        n == Len(w)
    IN  [i \in 1..n |-> [file_idx |-> cu_entries[w[n + 1 - i][1]].caller_file,
                         line |-> cu_entries[w[n + 1 - i][1]].caller_line]]

\* The frames above the breakpoint at key k, as (file, line) pairs.
FramesAbove(k) ==
    LET c == IF line_program_ranges[k].inlined_into_idx = None THEN << >>
             ELSE Chain(source_locations,
                        line_program_ranges[k].inlined_into_idx[1], MaxChain)
    IN  [i \in 1..Len(c) |-> [file_idx |-> c[i].file_idx, line |-> c[i].line]]

C12_ChainIsCallSites ==
    pc \in {"entries", "ranges", "panicked"}
        => \A k \in DOMAIN line_program_ranges :
              /\ FramesAbove(k) = CallSitesAbove(k)
              /\ line_program_ranges[k].inlined_into_idx # None
                    => ChainEnds(source_locations,
                                 line_program_ranges[k].inlined_into_idx[1],
                                 Len(CallSitesAbove(k)) - 1)

C12_AttributionStep ==
    [][(pc = "ranges" /\ nranges' = nranges + 1 /\ pc' = "ranges"
        /\ is_inlined_subroutine)
           => \A k \in view' :
                 /\ line_program_ranges'[k].inlined_into_idx # None
                 /\ line_program_ranges'[k].inlined_into_idx[1] + 1
                       \in 1..Len(source_locations')
                 /\ source_locations'[line_program_ranges'[k].inlined_into_idx[1] + 1]
                       = [file_idx |-> caller_file, line |-> caller_line,
                          function_idx |-> line_program_ranges[k].function_idx,
                          inlined_into_idx |->
                              line_program_ranges[k].inlined_into_idx]]_vars

C12_InnermostFirst == []C12_ChainIsCallSites /\ C12_AttributionStep

\* An outer inlined entry and an inner one nested in it, with different call
\* sites, both cover a breakpoint: its chain is the inner call site, then the
\* outer one.
C12_Witness ==
    /\ pc \in {"entries", "ranges"}
    /\ Len(cu_entries) = 2
    /\ cu_entries[1].inlined /\ cu_entries[2].inlined
    /\ cu_entries[2].depth = cu_entries[1].depth + 1
    /\ cu_entries[1].caller_file # cu_entries[2].caller_file
    /\ \E k \in DOMAIN line_program_ranges :
          /\ Containing(k) = {<< 1, 1 >>, << 2, 1 >>}
          /\ FramesAbove(k)
                = << [file_idx |-> cu_entries[2].caller_file,
                      line |-> cu_entries[2].caller_line],
                     [file_idx |-> cu_entries[1].caller_file,
                      line |-> cu_entries[1].caller_line] >>

(***************************************************************************)
(* C13. The per-unit file cache is transparent: whatever units and calls   *)
(* came before, insert_file returns for a unit-local index the handle of   *)
(* the interned File of the current unit's file-table entry at that index, *)
(* or the sentinel when the unit has no such entry; for the call-file of   *)
(* every entry, and for the file index of every row.                       *)
(***************************************************************************)
HandleOf(tbl, v) == (CHOOSE i \in 1..Len(tbl) : tbl[i] = v) - 1

\* The File of the unit's file-table entry at index i, over the strings tbl.
FileOf(tbl, h, i) ==
    [directory_idx |-> IF h[i].directory = None THEN None
                       ELSE Some(HandleOf(tbl, ToStringLossy(h[i].directory[1]))),
     path_name_idx |-> HandleOf(tbl, ToStringLossy(h[i].path_name))]

\* Whether ret is what resolving index i without a cache returns.
ResolvesTo(tbl, ftbl, h, i, ret) ==
    IF i \notin DOMAIN h THEN ret = U32_MAX
    ELSE /\ \A a \in {h[i].path_name}
                    \cup (IF h[i].directory = None THEN {} ELSE {h[i].directory[1]}) :
               \E n \in 1..Len(tbl) : tbl[n] = ToStringLossy(a)
         /\ ret + 1 \in 1..Len(ftbl)
         /\ ftbl[ret + 1] = FileOf(tbl, h, i)

CallFileResolved(bound) ==
    (pc = "ranges" /\ cu_entries # << >>
     /\ Last(cu_entries).call_file # None
     /\ Last(cu_entries).call_file[1] <= bound)
        => ResolvesTo(strings, files, header, Last(cu_entries).call_file[1],
                      Last(cu_entries).caller_file)

C13_RowFilesResolved ==
    [][(pc = "rows" /\ pc' = "entries")
          => \A k \in DOMAIN line_program_ranges' :
                \E i \in 1..Len(AllRows(cu_sequences)) :
                   /\ AsU32(AllRows(cu_sequences)[i].address) = k
                   /\ ResolvesTo(strings', files', header,
                                 AllRows(cu_sequences)[i].file_index,
                                 line_program_ranges'[k].file_idx)]_vars

C13_CacheTransparent == CallFileResolved(WideFile)

\* The same for the indexes below 2^32, where `as u32` changes nothing.
C13_CacheTransparentBelow2Pow32 == CallFileResolved(U32_MAX)

(***************************************************************************)
(* C14. Resolving a unit-local file index without an entry in the unit's   *)
(* file table returns the sentinel u32::MAX, not an error, interns nothing *)
(* and caches nothing; and no interned File has the sentinel as handle.    *)
(***************************************************************************)
MissingIsSentinel(bound) ==
    /\ (cu_entries # << >>
        /\ pc = "ranges"
        /\ Last(cu_entries).call_file # None
        /\ Last(cu_entries).call_file[1] <= bound
        /\ Last(cu_entries).call_file[1] \notin DOMAIN header)
           => Last(cu_entries).caller_file = U32_MAX
    /\ Len(files) - 1 < U32_MAX

C14_MissingIsSentinel == MissingIsSentinel(WideFile)

\* The same for the indexes below 2^32, where `as u32` changes nothing.
C14_MissingIsSentinelBelow2Pow32 == MissingIsSentinel(U32_MAX)

\* An entry whose call-file has no entry in the file table changes no table
\* and not the cache.
C14_MissingChangesNothing ==
    [][(pc = "entries" /\ pc' = "ranges"
        /\ Last(cu_entries').call_file # None
        /\ Last(cu_entries').call_file[1] \notin DOMAIN header)
           => UNCHANGED << strings, files, file_mapping >>]_vars

(***************************************************************************)
(* C15. A unit without a line program is skipped: the step returns         *)
(* success, leaves the string, File and SourceLocation tables and the      *)
(* global range index as they were, and the conversion goes on to the next *)
(* unit.                                                                   *)
(***************************************************************************)
C15_SkippedUnit ==
    [][(pc = "units" /\ units_done' = units_done + 1)
          => /\ UNCHANGED << strings, files, source_locations, ranges >>
             /\ pc' = "units"
             /\ result' = None]_vars

\* A unit was merged and a unit was skipped, and the index is not empty.
C15_Witness ==
    /\ pc = "units"
    /\ units_done = 2 /\ Len(merged) = 1
    /\ ranges # EmptyMap
    /\ result = None

(***************************************************************************)
(* C16. End of sequence: an end-of-sequence row closes a sequence only if  *)
(* rows were accumulated, with start the address of the first accumulated  *)
(* row, end the address of the end marker and the accumulated rows, and    *)
(* empties the accumulator; with no accumulated row it produces nothing;   *)
(* and the first normal row after it is accumulated whatever the rows of   *)
(* the sequences before.                                                   *)
(***************************************************************************)
ReadsARow == pc = "parse" /\ nrows' = nrows + 1

C16_EndOfSequence ==
    [][/\ (ReadsARow /\ row'.end_sequence /\ sequence_rows # << >>)
              => /\ sequences' = Append(sequences,
                                        [start |-> sequence_rows[1].address,
                                         end |-> row'.address,
                                         rows |-> sequence_rows])
                 /\ sequence_rows' = << >>
       /\ (ReadsARow /\ row'.end_sequence /\ sequence_rows = << >>)
              => UNCHANGED << sequences, sequence_rows >>
       /\ (ReadsARow /\ ~row'.end_sequence /\ sequence_rows = << >>)
              => /\ sequences' = sequences
                 /\ sequence_rows' = << LineProgramRow(row') >>]_vars

\* A sequence of one row was closed, and the same row read again is
\* accumulated for the next sequence.
C16_Witness ==
    /\ pc = "parse"
    /\ Len(program) = 3
    /\ ~program[1].end_sequence /\ program[2].end_sequence
    /\ program[3] = program[1]
    /\ sequences = << [start |-> program[1].address, end |-> program[2].address,
                       rows |-> << LineProgramRow(program[1]) >>] >>
    /\ sequence_rows = << LineProgramRow(program[3]) >>

(***************************************************************************)
(* C17. The decoder's output is minimal: in every sequence returned by     *)
(* parse_line_program no two consecutive rows have the same address and no *)
(* two consecutive rows carry the same (file, line) pair.                  *)
(***************************************************************************)
NoAdjacentFileLine(rows) ==
    \A i \in 1..(Len(rows) - 1) :
        ~(rows[i].file_index = rows[i + 1].file_index /\ rows[i].line = rows[i + 1].line)

C17_DecoderMinimal ==
    pc = "rows"
        => \A i \in 1..Len(cu_sequences) :
              /\ NoAdjacentAddress(cu_sequences[i].rows)
              /\ NoAdjacentFileLine(cu_sequences[i].rows)

\* The part that holds: no two consecutive rows have the same address.
C17_NoAdjacentAddress ==
    pc = "rows"
        => \A i \in 1..Len(cu_sequences) : NoAdjacentAddress(cu_sequences[i].rows)

(***************************************************************************)
(* C18. Frame of the debug-entry walk: the unit's keys are the row         *)
(* addresses (as u32) once the rows are inserted, and no step of the walk  *)
(* adds or removes a key or changes a breakpoint's file or line; a         *)
(* breakpoint's inlined_into changes only in a step that reads a PC range  *)
(* of an inlined-subroutine entry, and only for the keys k with            *)
(* begin <= k < upper; a PC range of a subprogram entry changes no file,   *)
(* line or inlined_into.                                                   *)
(***************************************************************************)
WalkStep ==
    pc \in {"entries", "ranges"} /\ pc' \in {"entries", "ranges", "panicked"}

InSubRange(m, rg, k) ==
    /\ k \in DOMAIN m
    /\ k >= AsU32(rg.begin)
    /\ \A j \in DOMAIN m : j >= AsU32(rg.end) => k < j

LastRowAt(rows, k) == MaxOf({i \in 1..Len(rows) : AsU32(rows[i].address) = k})

C20_IndexOfMergedUnits ==
    result = Some("Err")
        => /\ DOMAIN ranges = UNION {DOMAIN merged[i] : i \in 1..Len(merged)}
           /\ \A a \in DOMAIN ranges :
                 /\ ranges[a] + 1 \in 1..Len(source_locations)
                 /\ source_locations[ranges[a] + 1] = merged[FirstUnitAt(a)][a]

C20_IndexChangesInMerge ==
    [][ranges' # ranges
          => /\ pc = "entries" /\ pc' = "units"
             /\ merged' = Append(merged, line_program_ranges)
             /\ result' = None]_vars

C20_PartialState == []C20_IndexOfMergedUnits /\ C20_IndexChangesInMerge

\* The second unit failed after an inlined-subroutine range was attributed:
\* the index is the first unit's, and the table holds a caller location that
\* no entry of the index reaches.
C20_Witness ==
    /\ result = Some("Err")
    /\ Len(merged) = 1 /\ ranges # EmptyMap
    /\ nranges = 1
    /\ \E i \in 1..Len(source_locations) :
          /\ \A a \in DOMAIN ranges : ranges[a] # i - 1
          /\ \A j \in 1..Len(source_locations) :
                source_locations[j].inlined_into_idx # Some(i - 1)

(***************************************************************************)
(* C21. sub_ranges never fails: for every breakpoint map and every PC      *)
(* range of 64-bit values with begin <= end, the lower bound (begin as     *)
(* u32) is not greater than the upper bound (the first key >= end as u32,  *)
(* if any), so the range query does not panic.                             *)
(***************************************************************************)
SubRangesWellFormed(bound) ==
    (nranges > 0 /\ range.begin <= range.end /\ range.end <= bound)
        => /\ UpperBound(line_program_ranges, range) # None
                 => AsU32(range.begin) <= UpperBound(line_program_ranges, range)[1]
           /\ pc # "panicked"

C21_SubRangesNeverPanics == SubRangesWellFormed(WidePc)

\* The same for the ranges that end below 2^32, where `as u32` changes nothing.
C21_SubRangesNeverPanicsBelow2Pow32 == SubRangesWellFormed(U32_MAX)

====
